---- MODULE Spec2Model ----
(***************************************************************************)
(* Model of the client-side authentication state reconciliation hook      *)
(* useAuth (src/unnamed/part_000): per-instance AuthState, the module-wide *)
(* authListener singleton, the debounce timer, the profile completion      *)
(* probe with its retry loop, and the interactive operations.              *)
(*                                                                         *)
(* The identity platform, the RPC surface and the browser redirect are     *)
(* the environment: every outcome they can produce is a nondeterministic   *)
(* choice.  An action is a piece of a handler that runs without yielding   *)
(* to other handlers' effects: a stretch of awaits that touches only the   *)
(* handler's own locals (the retry loop of a probe, the external calls of  *)
(* signInWithGoogle) is taken in the step that ends it, with the outcome   *)
(* of every await in it drawn as an input.                                 *)
(***************************************************************************)
EXTENDS Naturals, FiniteSets, Sequences

\* ---------------------------------------------------------------- bounds
\* What the environment does in one behaviour: a mount or a platform event
\* costs 1, an interactive operation (its call and its outcome) costs 2.
MaxInputs == 4

\* ------------------------------------------------------ program constants
Retries == 3       \* withRetry(..., 3, 1500)

\* ------------------------------------------------------------ value sets
\* hook instances (components calling useAuth), numbered in creation order
Hooks == 1..MaxInputs
Null == "null"
Sessions == {"s1", "s2"}
MaybeSession == Sessions \cup {Null}

\* what supabase.auth.getSession() can resolve with: no session, or the
\* session the platform has stored
StoredSession == {Null, "s1"}
EventKinds == {"SIGNED_IN", "SIGNED_OUT", "TOKEN_REFRESHED", "USER_UPDATED"}

\* the (event, session) pairs the platform passes to a listener: SIGNED_OUT
\* comes without a session, a refresh or an update with one
Events ==
  {e \in [kind : EventKinds, session : MaybeSession] :
     /\ e.kind = "SIGNED_OUT" => e.session = Null
     /\ e.kind \in {"TOKEN_REFRESHED", "USER_UPDATED"} => e.session # Null}

\* session.user : the identity embedded in a session
SessionUser(s) == IF s = "s1" THEN "u1" ELSE "u2"

\* session?.user ?? null
UserOrNull(s) == IF s = Null THEN Null ELSE SessionUser(s)

VARIABLES
  life,          \* life[h]: "new" (not yet mounted), "mounted", "unmounted"
  authState,     \* authState[h]: the useState cell of instance h
  debounceRef,   \* debounceRef[h]: timer id held in debounceRef.current, 0 = null
  initPc,        \* initPc[h]: "idle", "pending" (awaiting getSession), "done"
  authListener,  \* module-level singleton: 0 = null, else the owner of the subscription
  registered,    \* listeners registered with the platform (by owning instance)
  unsubCalls,    \* unsubCalls[h]: unsubscribe() calls on the subscription made by h
  timers,        \* pending debounce timers
  probes,        \* running checkProfileCompletion calls
  signInPc,      \* signInPc[h]: position inside signInWithGoogle
  signOutPc,     \* signOutPc[h]: position inside signOut
  getSessionPc,  \* getSessionPc[h]: position inside getSession
  inputs,        \* mounts, events emitted and interactive operations started so far
  handlerRuns,   \* handler invocations caused by the last emitted event
  applied,       \* applied[h]: which setAuthState call wrote authState[h] last
  lastCall,      \* history: the checkProfileCompletion call that returned last
                 \* (recorded by ProbeSpec only), <<>> when none
  nav,           \* nav[h]: the route the screen rendering instance h passed to
                 \* router.replace, Null while it has not navigated
  legacyLife,    \* older hook (src/hooks/useAuth.ts), the instance of its
                 \* LoginScreen: "new", "mounted", "unmounted"
  legacyAuth,    \* its useState cell
  legacyInit,    \* position inside its initializeSession
  legacyPc,      \* positions inside its signInWithGoogle, signOut, getSession
  legacyChecks,  \* its running checkProfile calls, by awaiting caller
  legacyCheck,   \* history: outcome of the rpc of the checkProfile call whose
                 \* result is in legacyAuth, "" when the state has another origin
  legacyNav      \* the route its LoginScreen passed to router.replace, or Null

screenVars == <<nav>>

legacyVars == <<legacyLife, legacyAuth, legacyInit, legacyPc, legacyChecks,
                legacyCheck, legacyNav>>

vars == <<life, authState, debounceRef, initPc, authListener, registered,
          unsubCalls, timers, probes, signInPc, signOutPc, getSessionPc,
          inputs, handlerRuns, applied, lastCall, screenVars,
                 legacyVars>>

\* useState initial value
InitialAuthState ==
  [session |-> Null, user |-> Null, loading |-> TRUE, error |-> Null,
   needsProfileCompletion |-> Null]

\* useState initial value of the older hook
LegacyInitialAuthState ==
  [session |-> Null, user |-> Null, loading |-> TRUE, error |-> Null,
   isNewUser |-> Null]

Init ==
  /\ life = [h \in Hooks |-> "new"]
  /\ authState = [h \in Hooks |-> InitialAuthState]
  /\ debounceRef = [h \in Hooks |-> 0]
  /\ initPc = [h \in Hooks |-> "idle"]
  /\ authListener = 0
  /\ registered = {}
  /\ unsubCalls = [h \in Hooks |-> 0]
  /\ timers = {}
  /\ probes = {}
  /\ signInPc = [h \in Hooks |-> "idle"]
  /\ signOutPc = [h \in Hooks |-> "idle"]
  /\ getSessionPc = [h \in Hooks |-> "idle"]
  /\ inputs = 0
  /\ handlerRuns = 0
  /\ applied = [h \in Hooks |-> "useState"]
  /\ lastCall = <<>>
  /\ nav = [h \in Hooks |-> Null]
  /\ legacyLife = "new"
  /\ legacyAuth = LegacyInitialAuthState
  /\ legacyInit = "idle"
  /\ legacyPc = [signIn |-> "idle", signOut |-> "idle", getSession |-> "idle"]
  /\ legacyChecks = {}
  /\ legacyCheck = ""
  /\ legacyNav = Null


\* setAuthState(next) on instance h, made by the call site named by label.
\* The call is also made after h was unmounted (neither the timer nor the
\* pending awaits are cancelled by the cleanup): authState[h] is then the
\* value last passed to the instance's setter.
SetAuthState(h, next, label) ==
  /\ authState' = [authState EXCEPT ![h] = next]
  /\ applied' = [applied EXCEPT ![h] = label]

\* ------------------------------------------------- mount / unmount effects

\* the effect body without its `if (!authListener)` guard
SetupListenerUnguarded(h) ==
  [authListener |-> h, registered |-> registered \cup {h}]

\* listener effect body: if (!authListener) { ...onAuthStateChange...; authListener = subscription }
SetupListener(h) ==
  IF authListener = 0
    THEN [authListener |-> h, registered |-> registered \cup {h}]
    ELSE [authListener |-> authListener, registered |-> registered]

\* the cleanup without `authListener = null`
CleanupListenerKeepsHandle ==
  IF authListener # 0
    THEN [authListener |-> authListener,
          registered |-> registered \ {authListener},
          unsubCalls |-> [unsubCalls EXCEPT ![authListener] = @ + 1]]
    ELSE [authListener |-> authListener, registered |-> registered,
          unsubCalls |-> unsubCalls]

\* listener effect cleanup: if (authListener) { authListener.unsubscribe(); authListener = null }
CleanupListener ==
  IF authListener # 0
    THEN [authListener |-> 0,
          registered |-> registered \ {authListener},
          unsubCalls |-> [unsubCalls EXCEPT ![authListener] = @ + 1]]
    ELSE [authListener |-> authListener, registered |-> registered,
          unsubCalls |-> unsubCalls]

\* first render of a component using the hook: both effects run
Mount(h) ==
  /\ life[h] = "new"
  /\ \A g \in Hooks : g < h => life[g] # "new"
  /\ inputs < MaxInputs
  /\ inputs' = inputs + 1
  /\ life' = [life EXCEPT ![h] = "mounted"]
  /\ initPc' = [initPc EXCEPT ![h] = "pending"]
  /\ authListener' = SetupListener(h).authListener
  /\ registered' = SetupListener(h).registered
  /\ UNCHANGED <<authState, debounceRef, unsubCalls, timers, probes, signInPc,
                 signOutPc, getSessionPc, handlerRuns, applied, lastCall, screenVars,
                 legacyVars>>

\* the component unmounts: the listener effect's cleanup runs
Unmount(h) ==
  /\ life[h] = "mounted"
  /\ life' = [life EXCEPT ![h] = "unmounted"]
  /\ authListener' = CleanupListener.authListener
  /\ registered' = CleanupListener.registered
  /\ unsubCalls' = CleanupListener.unsubCalls
  /\ UNCHANGED <<authState, debounceRef, initPc, timers, probes, signInPc,
                 signOutPc, getSessionPc, inputs, handlerRuns, applied,
                 lastCall, screenVars,
                 legacyVars>>

\* ------------------------------------------------------- initializeSession

\* initializeSession taking a stored session for an incomplete profile
InitLoadedAssumesIncomplete(s) ==
  [session |-> s, user |-> UserOrNull(s), loading |-> FALSE, error |-> Null,
   needsProfileCompletion |-> IF s = Null THEN Null ELSE "true"]

\* state set by initializeSession when getSession() resolved with s
InitLoaded(s) ==
  [session |-> s, user |-> UserOrNull(s), loading |-> FALSE, error |-> Null,
   needsProfileCompletion |-> Null]

\* state set by initializeSession's catch
InitFailed ==
  [session |-> Null, user |-> Null, loading |-> FALSE,
   error |-> "initializeSession", needsProfileCompletion |-> Null]

InitResolve(h, s) ==
  /\ initPc[h] = "pending"
  /\ initPc' = [initPc EXCEPT ![h] = "done"]
  /\ SetAuthState(h, InitLoaded(s), "initLoaded")
  /\ UNCHANGED <<life, debounceRef, authListener, registered, unsubCalls,
                 timers, probes, signInPc, signOutPc, getSessionPc, inputs,
                 handlerRuns, lastCall, screenVars,
                 legacyVars>>

InitReject(h) ==
  /\ initPc[h] = "pending"
  /\ initPc' = [initPc EXCEPT ![h] = "done"]
  /\ SetAuthState(h, InitFailed, "initFailed")
  /\ UNCHANGED <<life, debounceRef, authListener, registered, unsubCalls,
                 timers, probes, signInPc, signOutPc, getSessionPc, inputs,
                 handlerRuns, lastCall, screenVars,
                 legacyVars>>

\* ------------------------------------------------ onAuthStateChange callback

\* the branch condition with the user test negated
IsProbeEventNegated(kind, s) == kind = "SIGNED_IN" /\ s = Null

\* event === 'SIGNED_IN' && session?.user?.id
IsProbeEvent(kind, s) == kind = "SIGNED_IN" /\ s # Null

\* the else branch taking every session for an incomplete profile
EventStateAssumesIncomplete(s) ==
  [session |-> s, user |-> UserOrNull(s), loading |-> FALSE, error |-> Null,
   needsProfileCompletion |-> IF s = Null THEN Null ELSE "true"]

\* the else branch without the session's user
EventStateNoUser(s) ==
  [session |-> s, user |-> Null, loading |-> FALSE, error |-> Null,
   needsProfileCompletion |-> Null]

\* else branch: the state applied directly
EventState(s) ==
  [session |-> s, user |-> UserOrNull(s), loading |-> FALSE, error |-> Null,
   needsProfileCompletion |-> Null]

\* debounce: clearTimeout(debounceRef.current) of instance h
ClearPending(h, tms) == {t \in tms : ~(t.h = h /\ t.id = debounceRef[h])}

\* the handle setTimeout returns: an id no live timer of the instance uses
FreshTimerId(h) ==
  LET used == {t.id : t \in {u \in ClearPending(h, timers) : u.h = h}}
              \cup {p.id : p \in {q \in probes : q.h = h /\ q.src = "event"}}
  IN  CHOOSE i \in 1..(MaxInputs + 1) :
        i \notin used /\ \A j \in 1..(MaxInputs + 1) : j \notin used => i <= j

\* debounce: the timer created by setTimeout(..., delay) for session s
NewTimer(h, id, s) ==
  [id |-> id, h |-> h, session |-> s, superseded |-> FALSE]

\* a pending timer that survives the delivery of a SIGNED_IN for another
\* subject is recorded as superseded (history only)
Supersede(t, s) ==
  [t EXCEPT !.superseded = @ \/ SessionUser(t.session) # SessionUser(s)]

\* the platform notifies (kind, s): every registered listener runs
\* synchronously
Deliver(kind, s) ==
  /\ registered # {}
  /\ handlerRuns' = Cardinality(registered)
  /\ IF IsProbeEvent(kind, s)
       THEN /\ timers' =
                 {Supersede(t, s) :
                    t \in {u \in timers : u.h \notin registered
                                          \/ u \in ClearPending(u.h, timers)}}
                 \cup {NewTimer(h, FreshTimerId(h), s) : h \in registered}
            /\ debounceRef' = [h \in Hooks |->
                                 IF h \in registered THEN FreshTimerId(h)
                                                     ELSE debounceRef[h]]
            /\ UNCHANGED <<authState, applied>>
       ELSE /\ authState' = [h \in Hooks |->
                               IF h \in registered THEN EventState(s)
                                                   ELSE authState[h]]
            /\ applied' = [h \in Hooks |->
                             IF h \in registered THEN "event" ELSE applied[h]]
            /\ UNCHANGED <<timers, debounceRef>>
  /\ UNCHANGED <<life, initPc, authListener, registered, unsubCalls, probes,
                 signInPc, signOutPc, getSessionPc, lastCall, screenVars,
                 legacyVars>>

\* an event of the platform's own making (a session changed elsewhere, a
\* token refreshed, ...)
Emit(kind, s) ==
  /\ inputs < MaxInputs
  /\ inputs' = inputs + 1
  /\ Deliver(kind, s)

\* --------------------------------------------------- checkProfileCompletion

\* what supabase.rpc('should_user_complete_profile').single() can do on one
\* attempt: never settle, throw, or resolve with {data, error}
AttemptOutcomes == {"hang", "throw", "error", "true", "false", "nodata"}

\* the outcomes of the attempts of one probe: k thrown errors, then final
Attempts(k, final) == [j \in 0..Retries |-> IF j < k THEN "throw" ELSE final]

\* the promise returned as it is, without the race against a timer
WithTimeoutNoRace(o) == IF o = "throw" THEN "reject" ELSE o

\* withTimeout(promise, ms, errorMessage): Promise.race of the promise and a
\* timer that rejects after ms; a promise that never settles is rejected
WithTimeout(o) == IF o \in {"hang", "throw"} THEN "reject" ELSE o

\* what the environment does to one probe: refreshSession fails, or it
\* succeeds and the attempts made come out as outs
ProbeRuns ==
  {[refreshOk |-> FALSE, outs |-> Attempts(0, "nodata")]}
  \cup {[refreshOk |-> TRUE, outs |-> Attempts(k, final)] :
          k \in 0..Retries, final \in AttemptOutcomes}

\* withRetry(fn, retries, delayMs) from attempt i on, outs[j] being what
\* fn() does when called the (j+1)-th time: the value fn resolved with, or
\* lastError thrown after the last attempt; hung when `await fn()` never
\* settles.  calls counts fn(), log lists the calls and the delays in order.
RECURSIVE WithRetry(_, _)
WithRetry(outs, i) ==
  IF outs[i] = "hang"
    THEN [threw |-> FALSE, hung |-> TRUE, value |-> Null, calls |-> i + 1,
          log |-> <<"rpc">>]
    ELSE IF outs[i] # "reject"
      THEN [threw |-> FALSE, hung |-> FALSE, value |-> outs[i], calls |-> i + 1,
            log |-> <<"rpc">>]
      ELSE IF i < Retries
        THEN LET r == WithRetry(outs, i + 1)
             IN  [r EXCEPT !.log = <<"rpc", "delay">> \o @]
        ELSE [threw |-> TRUE, hung |-> FALSE, value |-> "reject",
              calls |-> i + 1, log |-> <<"rpc">>]

\* const needsCompletion = !data
NeedsCompletion(data) == IF data = "true" THEN "false" ELSE "true"

\* a fallback that assumes the profile complete
CatchFallbackComplete == "false"

\* catch (err) { return true }
CatchFallback == "true"

\* a refresh error that is not checked
RefreshErrorIgnored(refreshOk) == FALSE

\* if (refreshError) { throw refreshError }
RefreshThrows(refreshOk) == ~refreshOk

\* the try block of checkProfileCompletion: refreshSession, then
\* withRetry(() => withTimeout(rpcPromise(), 10000, ...), 3, 1500), then the
\* check of the RPC's error; threw when an error reaches the catch
CheckProfileCompletionTry(refreshOk, outs) ==
  IF RefreshThrows(refreshOk)
    THEN [threw |-> TRUE, hung |-> FALSE, result |-> Null,
          how |-> "RefreshFailed", calls |-> 0, log |-> <<"refreshSession">>]
    ELSE LET r == WithRetry([j \in 0..Retries |-> WithTimeout(outs[j])], 0)
             l == <<"refreshSession">> \o r.log
         IN  IF r.hung
               THEN [threw |-> FALSE, hung |-> TRUE, result |-> Null,
                     how |-> "Hung", calls |-> r.calls, log |-> l]
               ELSE IF r.threw
                 THEN [threw |-> TRUE, hung |-> FALSE, result |-> Null,
                       how |-> "Exhausted", calls |-> r.calls, log |-> l]
                 ELSE IF r.value = "error"
                   THEN [threw |-> TRUE, hung |-> FALSE, result |-> Null,
                         how |-> "RpcError", calls |-> r.calls, log |-> l]
                   ELSE [threw |-> FALSE, hung |-> FALSE,
                         result |-> NeedsCompletion(r.value),
                         how |-> "Resolved", calls |-> r.calls, log |-> l]

\* checkProfileCompletion(userId): the boolean returned, how it came about,
\* the number of RPC invocations made and the external calls in order; the
\* catch turns every error of the try block into `return true`
CheckProfileCompletion(refreshOk, outs) ==
  LET b == CheckProfileCompletionTry(refreshOk, outs)
  IN  IF b.threw THEN [b EXCEPT !.threw = FALSE, !.result = CatchFallback]
                 ELSE b

\* updateProfileState leaving loading set
ProbeStateStillLoading(s, npc) ==
  [session |-> s, user |-> SessionUser(s), loading |-> TRUE, error |-> Null,
   needsProfileCompletion |-> npc]

\* what a caller sees of the call the environment treated as run
Returned(run) ==
  LET c == CheckProfileCompletion(run.refreshOk, run.outs)
  IN  [result |-> c.result, how |-> c.how, threw |-> c.threw, hung |-> c.hung]

\* one run for each way a call can end: the callers' steps depend on a run
\* only through Returned(run), the runs that differ in the calls made are
\* told apart by ProbeSpec alone
ProbeRunKinds ==
  {CHOOSE r \in ProbeRuns : Returned(r) = e : e \in {Returned(r) : r \in ProbeRuns}}

\* updateProfileState setting the session without the probe's result
ProbeStateFlagUnknown(s, npc) ==
  [session |-> s, user |-> SessionUser(s), loading |-> FALSE, error |-> Null,
   needsProfileCompletion |-> Null]

\* state set by updateProfileState when the probe returned npc
ProbeState(s, npc) ==
  [session |-> s, user |-> SessionUser(s), loading |-> FALSE, error |-> Null,
   needsProfileCompletion |-> npc]

\* state set by updateProfileState's catch
ProbeCaughtState(s) ==
  [session |-> s, user |-> SessionUser(s), loading |-> FALSE, error |-> Null,
   needsProfileCompletion |-> "true"]

\* getSession spreading prev without clearing error
GetSessionStateKeepsError(prev, s, npc) ==
  [prev EXCEPT !.session = s, !.user = UserOrNull(s), !.loading = FALSE,
               !.needsProfileCompletion = npc]

\* getSession spreading prev without replacing user
GetSessionStateStaleUser(prev, s, npc) ==
  [prev EXCEPT !.session = s, !.loading = FALSE, !.error = Null,
               !.needsProfileCompletion = npc]

\* getSession defaulting the flag to true when no probe ran
GetSessionStateDefaultTrue(prev, s, npc) ==
  [prev EXCEPT !.session = s, !.user = UserOrNull(s), !.loading = FALSE,
               !.error = Null,
               !.needsProfileCompletion = IF npc = Null THEN "true" ELSE npc]

\* state set by getSession after its probe returned npc (s may be null)
GetSessionState(prev, s, npc) ==
  [prev EXCEPT !.session = s, !.user = UserOrNull(s), !.loading = FALSE,
               !.error = Null, !.needsProfileCompletion = npc]

\* the debounce timer fires: updateProfileState starts, checkProfileCompletion
\* runs up to `await supabase.auth.refreshSession()`
TimerFire(t) ==
  /\ t \in timers
  /\ timers' = timers \ {t}
  /\ probes' = probes \cup
       {[id |-> t.id, h |-> t.h, session |-> t.session, src |-> "event",
         superseded |-> t.superseded]}
  /\ UNCHANGED <<life, authState, applied, debounceRef, initPc, authListener,
                 registered, unsubCalls, signInPc, signOutPc, getSessionPc,
                 inputs, handlerRuns, lastCall, screenVars,
                 legacyVars>>

\* -------------------------------------------------- interactive operations

\* setAuthState((prev) => ({ ...prev, loading: true, error: null }))
OpStarted(prev) == [prev EXCEPT !.loading = TRUE, !.error = Null]

\* a catch that sets a whole signed-out state instead of spreading prev
OpFailedDropsSession(prev, err) ==
  [session |-> Null, user |-> Null, loading |-> FALSE, error |-> err,
   needsProfileCompletion |-> Null]

\* catch: setAuthState((prev) => ({ ...prev, loading: false, error, needsProfileCompletion: null }))
OpFailed(prev, err) ==
  [prev EXCEPT !.loading = FALSE, !.error = err, !.needsProfileCompletion = Null]

\* signOut success that leaves loading set by the entry update
SignedOutStateKeepsLoading ==
  [session |-> Null, user |-> Null, loading |-> TRUE, error |-> Null,
   needsProfileCompletion |-> Null]

\* signOut success: the state set after supabase.auth.signOut() returned no error
SignedOutState ==
  [session |-> Null, user |-> Null, loading |-> FALSE, error |-> Null,
   needsProfileCompletion |-> Null]

\* the ways signInWithGoogle throws into its catch, in the order of the code
SignInFailures ==
  {"signInWithOAuth", "noOAuthUrl", "oauthError", "studentEmailRequired",
   "noAccessToken", "setSession", "oauthCanceled"}

OpFrame == <<life, debounceRef, initPc, authListener, registered, unsubCalls,
             timers, handlerRuns, lastCall, screenVars,
                 legacyVars>>

\* signInWithGoogle up to `await supabase.auth.signInWithOAuth(...)`
SignInStart(h) ==
  /\ life[h] = "mounted" /\ signInPc[h] = "idle"
  /\ inputs + 2 <= MaxInputs
  /\ inputs' = inputs + 2
  /\ SetAuthState(h, OpStarted(authState[h]), "signInStart")
  /\ signInPc' = [signInPc EXCEPT ![h] = "pending"]
  /\ UNCHANGED <<OpFrame, probes, signOutPc, getSessionPc>>

\* one of the external steps failed: the catch sets the state
SignInFail(h, err) ==
  /\ signInPc[h] = "pending"
  /\ SetAuthState(h, OpFailed(authState[h], err), "signInFailed")
  /\ signInPc' = [signInPc EXCEPT ![h] = "idle"]
  /\ UNCHANGED <<OpFrame, probes, signOutPc, getSessionPc, inputs>>

\* signInWithOAuth, the browser redirect and setSession all succeeded: the
\* function returns and sets no state
SignInSucceed(h) ==
  /\ signInPc[h] = "pending"
  /\ signInPc' = [signInPc EXCEPT ![h] = "idle"]
  /\ UNCHANGED <<OpFrame, probes, signOutPc, getSessionPc, inputs, authState,
                 applied>>

\* signOut up to `await supabase.auth.signOut()`
SignOutStart(h) ==
  /\ life[h] = "mounted" /\ signOutPc[h] = "idle"
  /\ inputs + 2 <= MaxInputs
  /\ inputs' = inputs + 2
  /\ SetAuthState(h, OpStarted(authState[h]), "signOutStart")
  /\ signOutPc' = [signOutPc EXCEPT ![h] = "pending"]
  /\ UNCHANGED <<OpFrame, probes, signInPc, getSessionPc>>

\* supabase.auth.signOut() returned
SignOutDone(h, ok) ==
  /\ signOutPc[h] = "pending"
  /\ signOutPc' = [signOutPc EXCEPT ![h] = "idle"]
  /\ IF ok THEN SetAuthState(h, SignedOutState, "signOutOk")
           ELSE SetAuthState(h, OpFailed(authState[h], "signOut"), "signOutFailed")
  /\ UNCHANGED <<OpFrame, probes, signInPc, getSessionPc, inputs>>

\* getSession up to `await supabase.auth.getSession()`: no state is set
GetSessionStart(h) ==
  /\ life[h] = "mounted" /\ getSessionPc[h] = "idle"
  /\ inputs + 2 <= MaxInputs
  /\ inputs' = inputs + 2
  /\ getSessionPc' = [getSessionPc EXCEPT ![h] = "pending"]
  /\ UNCHANGED <<OpFrame, probes, signInPc, signOutPc, authState, applied>>

\* supabase.auth.getSession() resolved with s: without a user the state is
\* set at once, with one checkProfileCompletion runs up to its first await
GetSessionResolve(h, s) ==
  /\ getSessionPc[h] = "pending"
  /\ IF s = Null
       THEN /\ SetAuthState(h, GetSessionState(authState[h], Null, Null),
                            "getSessionNone")
            /\ getSessionPc' = [getSessionPc EXCEPT ![h] = "idle"]
            /\ UNCHANGED probes
       ELSE /\ probes' = probes \cup
                 {[id |-> 0, h |-> h, session |-> s, src |-> "getSession",
                   superseded |-> FALSE]}
            /\ getSessionPc' = [getSessionPc EXCEPT ![h] = "probing"]
            /\ UNCHANGED <<authState, applied>>
  /\ UNCHANGED <<OpFrame, signInPc, signOutPc, inputs>>

\* supabase.auth.getSession() rejected
GetSessionReject(h) ==
  /\ getSessionPc[h] = "pending"
  /\ getSessionPc' = [getSessionPc EXCEPT ![h] = "idle"]
  /\ SetAuthState(h, OpFailed(authState[h], "getSession"), "getSessionFailed")
  /\ UNCHANGED <<OpFrame, probes, signInPc, signOutPc, inputs>>

\* checkProfileCompletion returns to its caller, which sets the state:
\* updateProfileState (try / catch around the call) or getSession (the call
\* is inside its try block)
CompleteProbe(p, run) ==
  /\ p \in probes
  /\ LET c == CheckProfileCompletion(run.refreshOk, run.outs) IN
     /\ ~c.hung
     /\ probes' = probes \ {p}
     /\ IF p.src = "event"
          THEN /\ IF c.threw
                    THEN SetAuthState(p.h, ProbeCaughtState(p.session),
                                      "probeCaught")
                    ELSE SetAuthState(p.h, ProbeState(p.session, c.result),
                                      "probe" \o c.how)
               /\ UNCHANGED getSessionPc
          ELSE /\ IF c.threw
                    THEN SetAuthState(p.h, OpFailed(authState[p.h], "getSession"),
                                      "getSessionFailed")
                    ELSE SetAuthState(p.h,
                           GetSessionState(authState[p.h], p.session, c.result),
                           "getSession" \o c.how)
               /\ getSessionPc' = [getSessionPc EXCEPT ![p.h] = "idle"]
  /\ UNCHANGED <<life, debounceRef, initPc, authListener, registered,
                 unsubCalls, timers, signInPc, signOutPc, inputs, handlerRuns>>

ProbeDone(p, run) ==
  /\ CompleteProbe(p, run)
  /\ UNCHANGED <<lastCall, screenVars, legacyVars>>

\* the same step, with the call recorded: what the environment did to it
\* and what checkProfileCompletion did and returned
ProbeDoneLogged(p, run) ==
  /\ CompleteProbe(p, run)
  /\ lastCall' = <<[refreshOk |-> run.refreshOk, outs |-> run.outs,
                    src |-> p.src,
                    ret |-> CheckProfileCompletion(run.refreshOk, run.outs)]>>
  /\ UNCHANGED <<screenVars, legacyVars>>

Next ==
  \/ \E h \in Hooks : Mount(h)
  \/ \E h \in Hooks : Unmount(h)
  \/ \E h \in Hooks, s \in StoredSession : InitResolve(h, s)
  \/ \E h \in Hooks : InitReject(h)
  \/ \E e \in Events : Emit(e.kind, e.session)
  \/ \E t \in timers : TimerFire(t)
  \/ \E p \in probes, run \in ProbeRunKinds : ProbeDone(p, run)
  \/ \E h \in Hooks : SignInStart(h)
  \/ \E h \in Hooks, err \in SignInFailures : SignInFail(h, err)
  \/ \E h \in Hooks : SignInSucceed(h)
  \/ \E h \in Hooks : SignOutStart(h)
  \/ \E h \in Hooks, ok \in BOOLEAN : SignOutDone(h, ok)
  \/ \E h \in Hooks : GetSessionStart(h)
  \/ \E h \in Hooks, s \in StoredSession : GetSessionResolve(h, s)
  \/ \E h \in Hooks : GetSessionReject(h)

Spec == Init /\ [][Next]_vars

\* one SIGNED_IN event carrying a session, and no other event or operation
ScenarioEmit ==
  /\ handlerRuns = 0
  /\ \E s \in Sessions : Emit("SIGNED_IN", s)

NextScenario ==
  \/ \E h \in Hooks : Mount(h)
  \/ \E h \in Hooks, s \in StoredSession : InitResolve(h, s)
  \/ \E h \in Hooks : InitReject(h)
  \/ ScenarioEmit
  \/ \E t \in timers : TimerFire(t)
  \/ \E p \in probes, run \in ProbeRunKinds : ProbeDone(p, run)

\* a timer that was set fires, and every await of a probe returns (the RPC
\* attempts by withTimeout at the latest)
ScenarioSpec ==
  /\ Init /\ [][NextScenario]_vars
  /\ WF_vars(\E t \in timers : TimerFire(t))
  /\ WF_vars(\E p \in probes, run \in ProbeRunKinds : ProbeDone(p, run))

\* supabase.auth.setSession(...) of a pending signInWithGoogle stores the
\* session and notifies the listeners with SIGNED_IN before it returns
SetSessionNotifies ==
  /\ \E h \in Hooks : signInPc[h] = "pending"
  /\ handlerRuns = 0
  /\ \E s \in Sessions : Deliver("SIGNED_IN", s)
  /\ UNCHANGED inputs

\* signInWithGoogle returns after setSession has succeeded
SignInReturns(h) ==
  /\ handlerRuns > 0
  /\ SignInSucceed(h)

\* sign-ins whose external steps all succeed, and nothing else
NextSignIn ==
  \/ \E h \in Hooks : Mount(h)
  \/ \E h \in Hooks, s \in StoredSession : InitResolve(h, s)
  \/ \E h \in Hooks : InitReject(h)
  \/ \E h \in Hooks : SignInStart(h)
  \/ SetSessionNotifies
  \/ \E h \in Hooks : SignInReturns(h)
  \/ \E t \in timers : TimerFire(t)
  \/ \E p \in probes, run \in ProbeRunKinds : ProbeDone(p, run)

\* the platform answers every call, a timer that was set fires, and every
\* await of a probe returns
SignInSpec ==
  /\ Init /\ [][NextSignIn]_vars
  /\ WF_vars(SetSessionNotifies)
  /\ WF_vars(\E h \in Hooks : SignInReturns(h))
  /\ WF_vars(\E t \in timers : TimerFire(t))
  /\ WF_vars(\E p \in probes, run \in ProbeRunKinds : ProbeDone(p, run))

\* the sign-out of instance h has been applied after its initial load, and
\* nothing has set its state since
SignedOut(h) ==
  /\ initPc[h] = "done"
  /\ authState[h].session = Null
  /\ applied[h] \in {"signOutOk", "event"}

\* a SIGNED_IN event while no instance is signed out
SignedInBeforeSignOut ==
  /\ \A h \in Hooks : ~SignedOut(h)
  /\ \E s \in Sessions : Emit("SIGNED_IN", s)

\* sign-ins followed by sign-outs: once an instance is signed out, no
\* SIGNED_IN is delivered and no sign-in or getSession is called
NextSignedOut ==
  \/ \E h \in Hooks : Mount(h)
  \/ \E h \in Hooks, s \in StoredSession : InitResolve(h, s)
  \/ \E h \in Hooks : InitReject(h)
  \/ SignedInBeforeSignOut
  \/ Emit("SIGNED_OUT", Null)
  \/ \E t \in timers : TimerFire(t)
  \/ \E p \in probes, run \in ProbeRunKinds : ProbeDone(p, run)
  \/ \E h \in Hooks : SignOutStart(h)
  \/ \E h \in Hooks, ok \in BOOLEAN : SignOutDone(h, ok)

SignedOutSpec == Init /\ [][NextSignedOut]_vars

\* the probe seen call by call: mounts, the initial load, SIGNED_IN events
\* and getSession start probes, and each completed call is recorded
NextProbe ==
  \/ \E h \in Hooks : Mount(h)
  \/ \E h \in Hooks, s \in StoredSession : InitResolve(h, s)
  \/ \E h \in Hooks : InitReject(h)
  \/ \E s \in Sessions : Emit("SIGNED_IN", s)
  \/ \E t \in timers : TimerFire(t)
  \/ \E h \in Hooks : GetSessionStart(h)
  \/ \E h \in Hooks, s \in StoredSession : GetSessionResolve(h, s)
  \/ \E h \in Hooks : GetSessionReject(h)
  \/ \E p \in probes, run \in ProbeRuns : ProbeDoneLogged(p, run)

ProbeSpec == Init /\ [][NextProbe]_vars

\* ------------------------------------------------------------ the screens

Login == "/(auth)/login"
Onboarding == "/(auth)/onboarding"
Home == "/(tabs)/home"

\* the component whose render calls useAuth instance h: the first instance
\* is the LoginScreen's, the other one the CompleteProfileScreen's
ScreenOf(h) == IF h = 1 THEN "login" ELSE "completeProfile"

\* a boolean | null value used as a condition
Truthy(v) == v = "true"

\* the navigation effect without its `needsProfileCompletion !== null` test
LoginTargetFlagUntested(st) ==
  IF st.session # Null
    THEN IF Truthy(st.needsProfileCompletion) THEN Onboarding ELSE Home
    ELSE Null

\* LoginScreen, navigation effect: the route passed to router.replace, Null
\* when the effect calls nothing
LoginTarget(st) ==
  IF st.session # Null /\ st.needsProfileCompletion # Null
    THEN IF Truthy(st.needsProfileCompletion) THEN Onboarding ELSE Home
    ELSE Null

\* LoginScreen of the older hook, redirect effect
LegacyLoginTarget(st) ==
  IF st.session # Null
    THEN IF st.isNewUser = "true" THEN Onboarding
         ELSE IF st.isNewUser = "false" THEN Home
         ELSE Null
    ELSE Null

\* CompleteProfileScreen, redirect effect
CompleteProfileTarget(st) ==
  IF ~st.loading /\ st.session # Null /\ st.needsProfileCompletion # Null
    THEN IF st.session = Null THEN Login
         ELSE IF ~Truthy(st.needsProfileCompletion) THEN Home
         ELSE Null
    ELSE Null

\* CompleteProfileScreen, what it renders
CompleteProfileView(st) ==
  IF st.loading \/ st.session = Null \/ st.needsProfileCompletion = Null
    THEN "loading"
    ELSE "form"

\* the effect of the screen that renders instance h
ScreenTarget(h) ==
  IF ScreenOf(h) = "login" THEN LoginTarget(authState[h])
                           ELSE CompleteProfileTarget(authState[h])

\* the screen's effect runs after a render and calls router.replace
ScreenEffect(h) ==
  /\ life[h] = "mounted"
  /\ nav[h] = Null
  /\ ScreenTarget(h) # Null
  /\ nav' = [nav EXCEPT ![h] = ScreenTarget(h)]
  /\ UNCHANGED <<life, authState, debounceRef, initPc, authListener,
                 registered, unsubCalls, timers, probes, signInPc, signOutPc,
                 getSessionPc, inputs, handlerRuns, applied, lastCall,
                 legacyVars>>

\* ---------------------------------------- the older hook and its LoginScreen

\* what the rpc 'check_profile' can do: data.is_new_user true or false, data
\* without the field, no data, an error in the result, a rejected promise
CheckOutcomes == {"new", "returning", "noField", "noData", "error", "throw"}

\* the try block of checkProfile
CheckProfileTry(o) ==
  IF o \in {"throw", "error", "noData"}
    THEN [threw |-> TRUE, value |-> Null]
    ELSE [threw |-> FALSE, value |-> IF o = "new" THEN "true" ELSE "false"]

\* checkProfile: the catch block returns false
CheckProfile(o) ==
  IF CheckProfileTry(o).threw THEN "false" ELSE CheckProfileTry(o).value

\* the state every caller of checkProfile sets with its result
LegacyChecked(s, isNewUser) ==
  [session |-> s, user |-> UserOrNull(s), loading |-> FALSE, error |-> Null,
   isNewUser |-> isNewUser]

\* the catch blocks: { ...prev, loading: false, error, isNewUser: null }
LegacyFailed(prev, err) ==
  [prev EXCEPT !.loading = FALSE, !.error = err, !.isNewUser = Null]

LegacyFrame == <<life, authState, debounceRef, initPc, authListener,
                 registered, unsubCalls, timers, probes, signInPc, signOutPc,
                 getSessionPc, handlerRuns, applied, lastCall, screenVars>>

LegacySet(next) ==
  /\ legacyAuth' = next
  /\ legacyCheck' = ""

\* first render of the older LoginScreen: both effects of its hook run
LegacyMount ==
  /\ legacyLife = "new"
  /\ inputs < MaxInputs
  /\ inputs' = inputs + 1
  /\ legacyLife' = "mounted"
  /\ legacyInit' = "pending"
  /\ UNCHANGED <<legacyAuth, legacyPc, legacyChecks, legacyCheck, legacyNav,
                 LegacyFrame>>

\* the cleanup of the listener effect: subscription.unsubscribe()
LegacyUnmount ==
  /\ legacyLife = "mounted"
  /\ legacyLife' = "unmounted"
  /\ UNCHANGED <<legacyAuth, legacyInit, legacyPc, legacyChecks, legacyCheck,
                 legacyNav, inputs, LegacyFrame>>

\* initializeSession: getSession() resolves
LegacyInitResolve(s) ==
  /\ legacyInit = "pending"
  /\ IF s # Null
       THEN /\ legacyChecks' = legacyChecks \cup {[op |-> "init", session |-> s]}
            /\ legacyInit' = "checking"
            /\ UNCHANGED <<legacyAuth, legacyCheck>>
       ELSE /\ LegacySet(LegacyChecked(Null, Null))
            /\ legacyInit' = "done"
            /\ UNCHANGED legacyChecks
  /\ UNCHANGED <<legacyLife, legacyPc, legacyNav, inputs, LegacyFrame>>

\* initializeSession: getSession() rejects
LegacyInitReject ==
  /\ legacyInit = "pending"
  /\ LegacySet(LegacyFailed(legacyAuth, "initializeSession"))
  /\ legacyInit' = "done"
  /\ UNCHANGED <<legacyLife, legacyPc, legacyChecks, legacyNav, inputs,
                 LegacyFrame>>

\* the platform calls the hook's own onAuthStateChange listener
LegacyDeliver(kind, s) ==
  /\ legacyLife = "mounted"
  /\ IF kind = "SIGNED_IN" /\ s # Null
       THEN /\ legacyChecks' = legacyChecks \cup {[op |-> "event", session |-> s]}
            /\ UNCHANGED <<legacyAuth, legacyCheck>>
       ELSE /\ LegacySet(LegacyChecked(s, Null))
            /\ UNCHANGED legacyChecks

LegacyEmit(kind, s) ==
  /\ inputs < MaxInputs
  /\ inputs' = inputs + 1
  /\ LegacyDeliver(kind, s)
  /\ UNCHANGED <<legacyLife, legacyInit, legacyPc, legacyNav, LegacyFrame>>

\* an awaited checkProfile returns and its caller sets the state
LegacyCheckDone(c, o) ==
  /\ c \in legacyChecks
  /\ legacyChecks' = legacyChecks \ {c}
  /\ legacyAuth' = LegacyChecked(c.session, CheckProfile(o))
  /\ legacyCheck' = o
  /\ legacyInit' = IF c.op = "init" THEN "done" ELSE legacyInit
  /\ legacyPc' = IF c.op \in {"signIn", "getSession"}
                   THEN [legacyPc EXCEPT ![c.op] = "idle"]
                   ELSE legacyPc
  /\ UNCHANGED <<legacyLife, legacyNav, inputs, LegacyFrame>>

LegacySignInStart ==
  /\ legacyLife = "mounted"
  /\ legacyPc.signIn = "idle"
  /\ inputs < MaxInputs
  /\ inputs' = inputs + 1
  /\ LegacySet([legacyAuth EXCEPT !.loading = TRUE, !.error = Null])
  /\ legacyPc' = [legacyPc EXCEPT !.signIn = "pending"]
  /\ UNCHANGED <<legacyLife, legacyInit, legacyChecks, legacyNav, LegacyFrame>>

\* any of the throws before checkProfile
LegacySignInFail ==
  /\ legacyPc.signIn = "pending"
  /\ LegacySet(LegacyFailed(legacyAuth, "signIn"))
  /\ legacyPc' = [legacyPc EXCEPT !.signIn = "idle"]
  /\ UNCHANGED <<legacyLife, legacyInit, legacyChecks, legacyNav, inputs,
                 LegacyFrame>>

\* setSession succeeds: the platform notifies the listener with SIGNED_IN
\* and signInWithGoogle awaits checkProfile
LegacySetSession(s) ==
  /\ legacyPc.signIn = "pending"
  /\ legacyPc' = [legacyPc EXCEPT !.signIn = "checking"]
  /\ legacyChecks' = legacyChecks \cup
       {[op |-> "signIn", session |-> s]} \cup
       (IF legacyLife = "mounted" THEN {[op |-> "event", session |-> s]} ELSE {})
  /\ UNCHANGED <<legacyLife, legacyAuth, legacyInit, legacyCheck, legacyNav,
                 inputs, LegacyFrame>>

LegacySignOutStart ==
  /\ legacyLife = "mounted"
  /\ legacyPc.signOut = "idle"
  /\ inputs < MaxInputs
  /\ inputs' = inputs + 1
  /\ LegacySet([legacyAuth EXCEPT !.loading = TRUE, !.error = Null])
  /\ legacyPc' = [legacyPc EXCEPT !.signOut = "pending"]
  /\ UNCHANGED <<legacyLife, legacyInit, legacyChecks, legacyNav, LegacyFrame>>

LegacySignOutDone(ok) ==
  /\ legacyPc.signOut = "pending"
  /\ legacyPc' = [legacyPc EXCEPT !.signOut = "idle"]
  /\ IF ok THEN LegacySet(LegacyChecked(Null, Null))
           ELSE LegacySet(LegacyFailed(legacyAuth, "signOut"))
  /\ UNCHANGED <<legacyLife, legacyInit, legacyChecks, legacyNav, inputs,
                 LegacyFrame>>

LegacyGetSessionStart ==
  /\ legacyLife = "mounted"
  /\ legacyPc.getSession = "idle"
  /\ inputs < MaxInputs
  /\ inputs' = inputs + 1
  /\ legacyPc' = [legacyPc EXCEPT !.getSession = "pending"]
  /\ UNCHANGED <<legacyLife, legacyAuth, legacyInit, legacyChecks, legacyCheck,
                 legacyNav, LegacyFrame>>

LegacyGetSessionResolve(s) ==
  /\ legacyPc.getSession = "pending"
  /\ IF s # Null
       THEN /\ legacyChecks' = legacyChecks \cup
                 {[op |-> "getSession", session |-> s]}
            /\ legacyPc' = [legacyPc EXCEPT !.getSession = "checking"]
            /\ UNCHANGED <<legacyAuth, legacyCheck>>
       ELSE /\ LegacySet(LegacyChecked(Null, Null))
            /\ legacyPc' = [legacyPc EXCEPT !.getSession = "idle"]
            /\ UNCHANGED legacyChecks
  /\ UNCHANGED <<legacyLife, legacyInit, legacyNav, inputs, LegacyFrame>>

LegacyGetSessionReject ==
  /\ legacyPc.getSession = "pending"
  /\ LegacySet(LegacyFailed(legacyAuth, "getSession"))
  /\ legacyPc' = [legacyPc EXCEPT !.getSession = "idle"]
  /\ UNCHANGED <<legacyLife, legacyInit, legacyChecks, legacyNav, inputs,
                 LegacyFrame>>

\* setIsNewUser, called by the onboarding screen
SetIsNewUser(v) ==
  /\ legacyLife = "mounted"
  /\ legacyAuth.isNewUser # v
  /\ inputs < MaxInputs
  /\ inputs' = inputs + 1
  /\ LegacySet([legacyAuth EXCEPT !.isNewUser = v])
  /\ UNCHANGED <<legacyLife, legacyInit, legacyPc, legacyChecks, legacyNav,
                 LegacyFrame>>

\* the older LoginScreen's redirect effect runs after a render
LegacyLoginEffect ==
  /\ legacyLife = "mounted"
  /\ legacyNav = Null
  /\ LegacyLoginTarget(legacyAuth) # Null
  /\ legacyNav' = LegacyLoginTarget(legacyAuth)
  /\ UNCHANGED <<legacyLife, legacyAuth, legacyInit, legacyPc, legacyChecks,
                 legacyCheck, inputs, LegacyFrame>>

\* an application is built with one version of the hook: a screen of the
\* current one mounts only where the older LoginScreen never did, ...
ScreenMount(h) ==
  /\ legacyLife = "new"
  /\ Mount(h)

\* ... and the older LoginScreen only where no screen of the current one did
LegacyScreenMount ==
  /\ \A h \in Hooks : life[h] = "new"
  /\ LegacyMount

\* the hook with its screens, or the older hook with its LoginScreen
NextApp ==
  \/ \E h \in Hooks : ScreenMount(h)
  \/ \E h \in Hooks, s \in StoredSession : InitResolve(h, s)
  \/ \E h \in Hooks : InitReject(h)
  \/ \E e \in Events : Emit(e.kind, e.session)
  \/ \E t \in timers : TimerFire(t)
  \/ \E p \in probes, run \in ProbeRunKinds : ProbeDone(p, run)
  \/ \E h \in Hooks : ScreenEffect(h)
  \/ LegacyScreenMount
  \/ LegacyUnmount
  \/ \E s \in StoredSession : LegacyInitResolve(s)
  \/ LegacyInitReject
  \/ \E e \in Events : LegacyEmit(e.kind, e.session)
  \/ \E c \in legacyChecks, o \in CheckOutcomes : LegacyCheckDone(c, o)
  \/ LegacySignInStart
  \/ LegacySignInFail
  \/ \E s \in Sessions : LegacySetSession(s)
  \/ LegacySignOutStart
  \/ \E ok \in BOOLEAN : LegacySignOutDone(ok)
  \/ LegacyGetSessionStart
  \/ \E s \in StoredSession : LegacyGetSessionResolve(s)
  \/ LegacyGetSessionReject
  \/ \E v \in {"true", "false", Null} : SetIsNewUser(v)
  \/ LegacyLoginEffect

ScreenSpec == Init /\ [][NextApp]_vars

TypeOK ==
  /\ \A h \in Hooks : authState[h].session \in MaybeSession
  /\ Cardinality(timers) <= MaxInputs

Mounted == {h \in Hooks : life[h] = "mounted"}
Unmounted == {h \in Hooks : life[h] = "unmounted"}

\* ------------------------------------------------------------------ claims

\* C1: in every reachable state, for every hook instance, AuthState.user is
\* the user embedded in AuthState.session, and is null when session is null.
C1_UserIsSessionUser ==
  \A h \in Hooks :
    /\ authState[h].session = Null => authState[h].user = Null
    /\ authState[h].session = "s1" => authState[h].user = "u1"
    /\ authState[h].session = "s2" => authState[h].user = "u2"

C1_Witness ==
  \E h \in Hooks :
    /\ applied[h] = "getSessionResolved"
    /\ authState[h].session = "s1" /\ authState[h].user = "u1"

\* C2: in every reachable state, needsProfileCompletion is null (unknown)
\* whenever session is null.
C2_NoFlagWithoutSession ==
  \A h \in Hooks :
    authState[h].session = Null => authState[h].needsProfileCompletion = Null

C2_Witness ==
  \E h \in Hooks :
    /\ applied[h] = "getSessionNone"
    /\ authState[h].session = Null
    /\ authState[h].needsProfileCompletion = Null

\* C3: a debounce timer that is still pending when a SIGNED_IN event for a
\* different subject is delivered never runs its probe: only the probe of
\* the later subject is executed.
C3_NoProbeForSupersededSubject == \A p \in probes : ~p.superseded

\* C4: when the RPC of a probe started by a SIGNED_IN event fails on the
\* initial attempt and on all 3 retries, the state applied at probe
\* completion has needsProfileCompletion = true and error = null.
C4_ExhaustedProbeAssumesIncomplete ==
  \A h \in Hooks :
    applied[h] = "probeExhausted" =>
      /\ authState[h].needsProfileCompletion = "true"
      /\ authState[h].error = Null

C4_Witness == \E h \in Hooks : applied[h] = "probeExhausted"

\* C5: whatever the prior state, the state signOut applies after a successful
\* external sign-out is exactly {session: null, user: null,
\* needsProfileCompletion: null, error: null, loading: false}.
C5_SignOutClearsEverything ==
  \A h \in Hooks :
    applied[h] = "signOutOk" =>
      authState[h] = [session |-> Null, user |-> Null, loading |-> FALSE,
                      error |-> Null, needsProfileCompletion |-> Null]

C5_Witness == \E h \in Hooks : applied[h] = "signOutOk"

\* the SIGNED_IN event for s has been delivered to the listener of h after
\* the initial load of h completed without a session
C6_Scenario(h, s) ==
  /\ applied[h] = "initLoaded" /\ authState[h].session = Null
  /\ \E t \in timers : t.h = h /\ t.session = s

C6_Final(h, s) ==
  /\ authState[h].session = s
  /\ authState[h].user = SessionUser(s)
  /\ authState[h].needsProfileCompletion \in {"true", "false"}
  /\ authState[h].loading = FALSE
  /\ authState[h].error = Null

\* C6: after an initial load without a session and one SIGNED_IN event for a
\* session, with no other event or operation, the state eventually becomes,
\* and then stays, that session with its user, the probe's result,
\* loading = false and error = null.
C6_SignedInSettles ==
  \A h \in Hooks, s \in Sessions :
    C6_Scenario(h, s) ~> [](C6_Final(h, s))

C6_Witness ==
  \E h \in Hooks :
    /\ applied[h] = "probeResolved" /\ authState[h].needsProfileCompletion = "false"
    /\ authState[h].session = "s2" /\ handlerRuns = 1

FailureLabels == {"signInFailed", "signOutFailed", "getSessionFailed"}

\* C7: the state applied when signInWithGoogle, signOut or getSession fails
\* has loading = false, error set to the failure and needsProfileCompletion
\* = null, and keeps the session and the user it had before.
C7_FailureKeepsSession ==
  [][\A h \in Hooks :
       applied'[h] \in FailureLabels =>
         /\ authState'[h].loading = FALSE
         /\ authState'[h].needsProfileCompletion = Null
         /\ applied'[h] = "signInFailed" => authState'[h].error \in SignInFailures
         /\ applied'[h] = "signOutFailed" => authState'[h].error = "signOut"
         /\ applied'[h] = "getSessionFailed" => authState'[h].error = "getSession"
         /\ authState'[h].session = authState[h].session
         /\ authState'[h].user = authState[h].user]_vars

C7_Witness ==
  \E h \in Hooks :
    /\ applied[h] = "signInFailed" /\ authState[h].error = "oauthCanceled"
    /\ authState[h].session = "s1" /\ authState[h].user = "u1"

\* C8: when the listener effect has run for two mounts with no teardown,
\* exactly one listener is registered with the platform, and no event ever
\* runs the handler twice.
C8_OneListener ==
  /\ Cardinality(registered) <= 1
  /\ handlerRuns <= 1
  /\ (Cardinality(Mounted) >= 2 /\ Unmounted = {}) => Cardinality(registered) = 1

C8_Witness ==
  /\ Cardinality(Mounted) >= 2 /\ Unmounted = {}
  /\ Cardinality(registered) = 1 /\ handlerRuns = 1

\* C9: as long as at least one hook instance remains mounted, the shared
\* listener stays registered with the platform.
C9_ListenerWhileMounted == Mounted # {} => registered # {}

\* C10: unsubscribe is called exactly once per acquired subscription: a
\* teardown with no listener held does nothing, a teardown clears the
\* guard, and the next mount after it registers a new listener.
C10_TeardownOnce ==
  /\ [](\A h \in Hooks : /\ unsubCalls[h] <= 1
                          /\ unsubCalls[h] = 1 => h \notin registered)
  /\ []((authListener = 0) <=> (registered = {}))
  /\ [][\A h \in Hooks :
         /\ (life[h] = "mounted" /\ life'[h] = "unmounted") =>
              /\ authListener' = 0
              /\ authListener = 0 => unsubCalls' = unsubCalls
              /\ authListener # 0 =>
                    unsubCalls'[authListener] = unsubCalls[authListener] + 1
         /\ (life[h] = "new" /\ life'[h] = "mounted" /\ authListener = 0) =>
              (authListener' = h /\ registered' = {h})]_vars

C10_Witness ==
  \E h, g \in Hooks :
    /\ h # g /\ unsubCalls[h] = 1 /\ life[g] = "unmounted" /\ unsubCalls[g] = 0
    /\ \E f \in Hooks : authListener = f /\ unsubCalls[f] = 0

\* the setAuthState calls made by initializeSession
InitLabels == {"initLoaded", "initFailed"}

\* C11: every state update caused by a platform event or by an operation is
\* observed by all mounted consumers: after it is applied, every mounted
\* hook instance exposes the same AuthState snapshot.
C11_AllConsumersSeeUpdate ==
  [][\A h \in Hooks :
       (/\ authState'[h] # authState[h]
        /\ applied'[h] \notin InitLabels
        /\ life'[h] = "mounted")
       => \A g \in Hooks :
            life'[g] = "mounted" => authState'[g] = authState'[h]]_vars

\* C12: signInWithGoogle, signOut and getSession each set loading = true and
\* error = null as their first step, before any external call is made.
C12_OperationsStartLoading ==
  [][\A h \in Hooks :
       (\/ signInPc[h] = "idle" /\ signInPc'[h] = "pending"
        \/ signOutPc[h] = "idle" /\ signOutPc'[h] = "pending"
        \/ getSessionPc[h] = "idle" /\ getSessionPc'[h] = "pending")
       => (authState'[h].loading = TRUE /\ authState'[h].error = Null)]_vars

\* an operation of instance h has started and has not yet set its result
InFlight(h) ==
  \/ initPc[h] = "pending"
  \/ signInPc[h] = "pending"
  \/ signOutPc[h] = "pending"
  \/ getSessionPc[h] \in {"pending", "probing"}
  \/ \E p \in probes : p.h = h

\* C13: in every reachable state, loading is true whenever some operation is
\* in flight: the initial session load, a sign-in, a sign-out, a getSession
\* call, or a probe (from the debounce firing until its result is applied).
C13_LoadingWhileInFlight ==
  \A h \in Hooks : InFlight(h) => authState[h].loading = TRUE

\* how a checkProfileCompletion call can fail inside
ProbeFailures == {"RefreshFailed", "Exhausted", "RpcError"}

\* the setAuthState calls made when a probe has ended
ProbeEndLabels ==
  {"probe" \o w : w \in ProbeFailures \cup {"Resolved"}}
  \cup {"getSession" \o w : w \in ProbeFailures \cup {"Resolved"}}
  \cup {"probeCaught"}

ProbeFailedLabels ==
  {"probe" \o w : w \in ProbeFailures}
  \cup {"getSession" \o w : w \in ProbeFailures}

\* C14: no failure inside the probe (refresh failure, RPC timeout, thrown
\* error or RPC error result) makes AuthState.error non-null: every state
\* applied at the end of a probe, in the SIGNED_IN path and in getSession,
\* has error = null, and a probe failure only shows as
\* needsProfileCompletion = true.
C14_ProbeErrorsNotSurfaced ==
  \A h \in Hooks :
    /\ applied[h] \in ProbeEndLabels => authState[h].error = Null
    /\ applied[h] \in ProbeFailedLabels =>
         authState[h].needsProfileCompletion = "true"

C14_Witness ==
  \E h \in Hooks :
    /\ applied[h] = "getSessionRpcError"
    /\ authState[h].error = Null
    /\ authState[h].needsProfileCompletion = "true"

\* an RPC attempt that failed: it timed out, threw, or returned an error
FailedAttempt(o) == o \in {"hang", "throw", "error"}

\* the delays withRetry made during a call
Delays(log) == Cardinality({k \in DOMAIN log : log[k] = "delay"})

\* C15: every failed RPC attempt inside a probe is retried until the budget
\* of 3 retries is used, whatever the failure kind (timeout, thrown error,
\* or an error returned by the RPC): a probe whose attempts all fail invokes
\* the RPC exactly 4 times, and no probe invokes it more than 4 times.
C15_EveryFailureRetried ==
  \A i \in DOMAIN lastCall :
    LET c == lastCall[i] IN
    /\ c.ret.calls <= 4
    /\ (/\ c.ret.calls >= 1
        /\ \A j \in 0..(c.ret.calls - 1) : FailedAttempt(c.outs[j]))
       => c.ret.calls = 4

\* C16: in every probe the session refresh is called before the first RPC
\* attempt; if the refresh fails, the probe makes no RPC invocation and no
\* retry, and its result is true.
C16_RefreshBeforeRpc ==
  \A i \in DOMAIN lastCall :
    LET c == lastCall[i] IN
    /\ Head(c.ret.log) = "refreshSession"
    /\ \A k \in 2..Len(c.ret.log) : c.ret.log[k] # "refreshSession"
    /\ ~c.refreshOk =>
         /\ c.ret.log = <<"refreshSession">>
         /\ c.ret.calls = 0
         /\ Delays(c.ret.log) = 0
         /\ c.ret.result = "true"

C16_Witness ==
  \E i \in DOMAIN lastCall :
    /\ ~lastCall[i].refreshOk /\ lastCall[i].src = "event"
    /\ \E h \in Hooks : applied[h] = "probeRefreshFailed"

\* C17: every checkProfileCompletion call whose refresh returns terminates
\* with a boolean and never throws to its caller: each RPC attempt ends by
\* resolving or by a timeout error, at most 4 attempts and 3 retry delays
\* occur, and the catch branch of updateProfileState is never reached.
C17_ProbeReturnsBoolean ==
  /\ probes # {} =>
       \A run \in ProbeRuns :
         ~CheckProfileCompletion(run.refreshOk, run.outs).hung
  /\ \A i \in DOMAIN lastCall :
       LET c == lastCall[i] IN
       /\ ~c.ret.threw /\ ~c.ret.hung
       /\ c.ret.result \in {"true", "false"}
       /\ c.ret.calls <= 4
       /\ Delays(c.ret.log) <= 3
  /\ \A h \in Hooks : applied[h] # "probeCaught"

C17_Witness ==
  \E i \in DOMAIN lastCall :
    LET c == lastCall[i] IN
    /\ c.refreshOk /\ \A j \in 0..Retries : c.outs[j] = "hang"
    /\ c.ret.how = "Exhausted" /\ c.ret.calls = 4 /\ Delays(c.ret.log) = 3
    /\ c.ret.result = "true"

\* C18: a SIGNED_IN event that carries a user changes no field of AuthState
\* when it is delivered; it only (re)schedules the debounce timer, and the
\* state changes only when the scheduled probe completes.
C18_SignedInOnlySchedules ==
  [][/\ \A s \in Sessions :
          Emit("SIGNED_IN", s) =>
            /\ authState' = authState /\ applied' = applied
            /\ probes' = probes
            /\ \A h \in registered :
                 /\ \E t \in timers' :
                      t.h = h /\ t.id = debounceRef'[h] /\ t.session = s
                 /\ \A t \in timers' : t.h = h => t.id = debounceRef'[h]
     /\ (\E t \in timers : TimerFire(t)) =>
          (authState' = authState /\ applied' = applied)]_vars

C18_Witness ==
  \E t \in timers :
    /\ t.session = "s2" /\ debounceRef[t.h] = t.id
    /\ applied[t.h] = "event" /\ authState[t.h].session = "s1"

\* C19: every event that is not a SIGNED_IN with a user (sign-out, token
\* refresh, user update, or SIGNED_IN without a user) is applied at once on
\* delivery, and the resulting state is exactly {session: the event's
\* session, user: that session's user or null, needsProfileCompletion: null,
\* loading: false, error: null}, whatever the prior state was.
C19_OtherEventsApplyAtOnce ==
  [][\A e \in Events :
       (/\ ~(e.kind = "SIGNED_IN" /\ e.session # Null)
        /\ inputs' = inputs + 1
        /\ Emit(e.kind, e.session))
       => \A h \in registered :
            authState'[h] =
              [session |-> e.session,
               user |-> IF e.session = Null THEN Null
                                            ELSE SessionUser(e.session),
               needsProfileCompletion |-> Null, loading |-> FALSE,
               error |-> Null]]_vars

C19_Witness ==
  \E h \in Hooks :
    /\ applied[h] = "event" /\ h \in registered
    /\ authState[h].session = "s2" /\ authState[h].user = "u2"
    /\ authState[h].loading = FALSE

\* C20: initialization applies exactly one state: with a session returned,
\* {session, user: session.user, needsProfileCompletion: null, loading:
\* false, error: null} and no probe is run; with none, the signed-out
\* defaults with loading = false; when the request fails, {session: null,
\* user: null, error set, loading: false, needsProfileCompletion: null}.
C20_InitAppliesOneState ==
  [][\A h \in Hooks :
       IF initPc'[h] = initPc[h]
         THEN \* no step of initializeSession: it sets no state
              \/ applied'[h] = applied[h] /\ authState'[h] = authState[h]
              \/ applied'[h] \notin InitLabels
         ELSE /\ initPc[h] # "done"
              /\ initPc[h] = "pending" => initPc'[h] = "done"
              /\ \A s \in StoredSession :
                   InitResolve(h, s) =>
                     /\ authState'[h] =
                          [session |-> s,
                           user |-> IF s = Null THEN Null ELSE SessionUser(s),
                           needsProfileCompletion |-> Null, loading |-> FALSE,
                           error |-> Null]
                     /\ probes' = probes /\ timers' = timers
              /\ InitReject(h) =>
                   /\ authState'[h].error # Null
                   /\ [authState'[h] EXCEPT !.error = Null] =
                        [session |-> Null, user |-> Null,
                         needsProfileCompletion |-> Null, loading |-> FALSE,
                         error |-> Null]
                   /\ probes' = probes /\ timers' = timers
              /\ initPc[h] = "idle" =>
                   (applied'[h] = applied[h] /\ authState'[h] = authState[h])]_vars

C20_Witness ==
  \E h, g \in Hooks :
    /\ applied[h] = "initLoaded" /\ authState[h].session = "s1"
    /\ applied[g] = "initFailed" /\ authState[g].error # Null
    /\ probes = {} /\ timers = {}

\* the probes that returned in this step to instance h for session s
ReturnedNow(h, s) == {p \in probes \ probes' : p.h = h /\ p.session = s}

\* C21: wherever needsProfileCompletion is non-null, its value is the result
\* of a probe run for the subject of the session held in AuthState; every
\* update that replaces the session with a different one sets
\* needsProfileCompletion to null unless it carries the probe result for
\* the new session.
C21_FlagBelongsToSession ==
  /\ \A h \in Hooks : authState[h].needsProfileCompletion = Null
  /\ [][\A h \in Hooks :
          \/ /\ authState'[h].session = authState[h].session
             /\ authState'[h].needsProfileCompletion
                  \in {authState[h].needsProfileCompletion, Null}
          \/ authState'[h].session # authState[h].session
               /\ authState'[h].needsProfileCompletion = Null
          \/ /\ ReturnedNow(h, authState'[h].session) # {}
             /\ authState'[h].needsProfileCompletion \in {"true", "false"}]_vars

C21_Witness ==
  \E h \in Hooks :
    /\ applied[h] = "event" /\ authState[h].session = "s2"
    /\ authState[h].needsProfileCompletion = Null
    /\ \E p \in probes : p.h = h /\ p.session = "s1"

\* the setAuthState calls of updateProfileState
EventProbeLabels ==
  {"probe" \o w : w \in ProbeFailures \cup {"Resolved"}} \cup {"probeCaught"}

\* C22: a probe whose debounce timer has fired is never cancelled: with
\* probe P1 for s1 in flight, a later SIGNED_IN schedules and runs P2 for
\* s2; if P2 completes before P1, then when P1 completes the state holds s1
\* and P1's result, overwriting P2's (the update that completes last wins).
C22_LastCompletionWins ==
  [][\A p \in probes :
       (p.src = "event" /\ p \notin probes') =>
         /\ inputs' = inputs
         /\ authState'[p.h].session = p.session
         /\ authState'[p.h].user = SessionUser(p.session)
         /\ authState'[p.h].needsProfileCompletion \in {"true", "false"}
         /\ applied'[p.h] \in EventProbeLabels]_vars

\* P2 (for s2, the later timer) has set its result while P1 (for s1, the
\* earlier timer) is still in flight
C22_Witness ==
  \E h \in Hooks :
    /\ applied[h] \in EventProbeLabels /\ authState[h].session = "s2"
    /\ debounceRef[h] = 2
    /\ \E p \in probes : p.h = h /\ p.src = "event" /\ p.id = 1 /\ p.session = "s1"

\* C23: in every reachable state, over any sequence of hook mounts, unmounts
\* and SIGNED_IN events, at most one probe debounce timer is pending;
\* scheduling a new probe always cancels the previously pending timer.
C23_OnePendingTimer == Cardinality(timers) <= 1

\* C24: when every external step of signInWithGoogle succeeds, the state of
\* the hook instance that called it eventually has session present and
\* loading = false.
C24_SignInSettles ==
  \A h \in Hooks :
    signInPc[h] = "pending" ~>
      (authState[h].session # Null /\ authState[h].loading = FALSE)

\* C25: once the user is signed out (a SIGNED_OUT event has been applied, or
\* signOut() has applied its success state) and no sign-in event or
\* operation happens afterwards, session stays null in every later state: a
\* debounce timer or probe left over from an earlier SIGNED_IN cannot make
\* the session present again.
C25_SignedOutStays ==
  [][\A h \in Hooks : SignedOut(h) => authState'[h].session = Null]_vars

\* C26: after the listener teardown has run for a hook instance (its
\* unmount), no later state update of that instance is caused by an event
\* delivered before the teardown: a pending debounce timer or an in-flight
\* probe does not apply state after teardown.
C26_NoUpdateAfterTeardown ==
  [][\A p \in probes :
       (p.src = "event" /\ life[p.h] = "unmounted" /\ p \notin probes') =>
         (authState'[p.h] = authState[p.h] /\ applied'[p.h] = applied[p.h])]_vars

\* the outcomes of the rpc with which the profile check fails
CheckFailures == {"error", "throw"}

\* C27: in the older hook, a state whose onboarding flag comes from a failed
\* profile check (an error in the rpc's result or a thrown exception) has the
\* onboarding-required value (isNewUser true), and the login screen's
\* redirect effect does not navigate to home in it.
C27_FailedCheckRequiresOnboarding ==
  legacyCheck \in CheckFailures =>
    /\ legacyAuth.isNewUser = "true"
    /\ LegacyLoginTarget(legacyAuth) # Home

\* C28: whenever a login screen navigates, the session is present, and the
\* route is home with the flag exactly false or onboarding with the flag
\* exactly true; so it does not navigate while the flag is null or the
\* session is absent. Both the current and the older login screen.
C28_LoginNavigatesOnKnownFlag ==
  [][/\ \A h \in Hooks :
          (ScreenOf(h) = "login" /\ nav'[h] # nav[h]) =>
            /\ authState[h].session # Null
            /\ \/ nav'[h] = Home /\ authState[h].needsProfileCompletion = "false"
               \/ nav'[h] = Onboarding
                    /\ authState[h].needsProfileCompletion = "true"
     /\ (legacyNav' # legacyNav) =>
            (/\ legacyAuth.session # Null
             /\ \/ legacyNav' = Home /\ legacyAuth.isNewUser = "false"
                \/ legacyNav' = Onboarding /\ legacyAuth.isNewUser = "true")]_vars

C28_Witness ==
  \E h \in Hooks :
    /\ ScreenOf(h) = "login"
    /\ nav[h] = Home
    /\ applied[h] = "probeResolved"
    /\ authState[h].needsProfileCompletion = "false"

\* C29: while the complete-profile screen is mounted, has not navigated and
\* auth loading has finished, its redirect effect goes to the login route
\* when there is no session and to home when a session is present and
\* needsProfileCompletion is false; it shows its loading view only while a
\* redirect or an update of the auth state is still to come.
C29_CompleteProfileRedirects ==
  \A h \in Hooks :
    (/\ ScreenOf(h) = "completeProfile"
     /\ life[h] = "mounted"
     /\ nav[h] = Null
     /\ ~authState[h].loading) =>
      /\ (authState[h].session = Null =>
            CompleteProfileTarget(authState[h]) = Login)
      /\ (/\ authState[h].session # Null
          /\ authState[h].needsProfileCompletion = "false") =>
           CompleteProfileTarget(authState[h]) = Home

====
